---- MODULE Spec2Model ----
(***************************************************************************)
(* Model of the file-move / undo-ledger engine of Organizador.py:          *)
(* _unique_dest, move_files, save_undo_record, load_undo_record,           *)
(* undo_last and the execution worker of App._run_move_in_thread (Spec),   *)
(* the engine with a raising callback (SpecCb) and next to a user who      *)
(* creates files (SpecEnv), _unique_dest alone (SpecNamer), the worker     *)
(* threads, queue and polling handlers of the App (SpecApp),               *)
(* get_matched_files (SpecMatch), the engine under fair scheduling         *)
(* (SpecLive), one execute over a folder with numbered names (SpecBatch)   *)
(* and the rule editor of the App (SpecOrg).                               *)
(*                                                                         *)
(* The filesystem is a finite tree: a function from paths (sequences of    *)
(* names) to contents (Dir, or the identity of a regular file).  A name is *)
(* kept as the parts pathlib splits it into, so that the collision name    *)
(* "{stem} ({n}){ext}" is built the way _unique_dest builds it.            *)
(* Storage of the ledger file itself (undo_record.json) is taken to work:  *)
(* the except branches of save/load/unlink are not taken.                  *)
(***************************************************************************)
EXTENDS Integers, Sequences, FiniteSets, TLC

VARIABLES
    fs,         \* the filesystem: path -> Dir or a file identity
    ledger,     \* UNDO_FILE: <<>> when absent, else <<record>>
    clock,      \* number of calls started so far (stands for utcnow())
    pc,         \* position of the running call, "idle" between calls
    call,       \* arguments of the running (or last) call
    results,    \* local `results` of move_files / undo_last
    completed,  \* local `completed`
    ops,        \* local `ops` of undo_last (the loaded operations)
    ret,        \* what the last call handed to its caller
    events,     \* attempts and progress_callback invocations of the call
    fs0,        \* filesystem when the running (or last) call started
    ledger0,    \* ledger when the running (or last) call started
    prev,       \* the call completed before the running (or last) one
    lastReal,   \* the last completed real execution and whether undone
    cbRaised,   \* number of the last call in which the callback raised
    named,      \* the last _unique_dest call made on its own, and its result
    workers,    \* the threads started by the App, in order of their start
    queue,      \* App._thread_queue
    windows,    \* per worker: its progress window exists, its handler polls
    taken,      \* the messages taken off the queue, other than progress
                \* shown, and by whom
    scan,       \* the last get_matched_files call made on its own: the
                \* directory as listed, the rule and the result
    sent,       \* per worker: the messages it has put on the queue
    organizations,  \* App.organizations: rule name -> rule
    editing_org_original_name,  \* App.editing_org_original_name
    form,       \* the entries and the checkbox of the creation frame
    frame,      \* which frame is shown: "main" or "creation"
    saved       \* the last save_organization call: what it found and did

\* the rule editor of the App
rules == <<organizations, editing_org_original_name, form, frame, saved>>

\* what no step of move_files or undo_last touches
apart == <<named, workers, queue, windows, taken, scan, sent, rules>>

\* what the engine's steps with a well-behaved callback leave alone
aside == <<cbRaised, apart>>

vars == <<fs, ledger, clock, pc, call, results, completed, ops, ret,
          events, fs0, ledger0, prev, lastReal, aside>>

-----------------------------------------------------------------------------
(* Bounds *)

\* number of execute / undo calls in one behaviour
MaxCalls == 3
\* longest list of files handed to move_files
MaxFiles == 2

-----------------------------------------------------------------------------
(* Names and paths *)

\* content of a directory node; regular files carry an identity >= 1
Dir == 0

\* a file name "a.txt": stem "a" (base plus the " (n)" groups already
\* appended to it) and extension ".txt"
FileName(base) == [base |-> base, nums |-> <<>>, ext |-> ".txt"]
DirName(base) == [base |-> base, nums |-> <<>>, ext |-> ""]

InDir == <<DirName("in")>>
OutDir == <<DirName("out")>>

\* pathlib: dir / name, path.parent, path.name
Join(dir, name) == Append(dir, name)
Parent(p) == SubSeq(p, 1, Len(p) - 1)
NameOf(p) == p[Len(p)]

Exists(f, p) == p \in DOMAIN f
IsDir(f, p) == Exists(f, p) /\ f[p] = Dir

IsPrefix(p, q) == Len(p) <= Len(q) /\ SubSeq(q, 1, Len(p)) = p

\* f"{base} ({counter}){ext}" with base = dest_path.stem, ext = dest_path.suffix
WithCounter(name, counter) ==
    [base |-> name.base, nums |-> Append(name.nums, counter), ext |-> name.ext]

\* variant: the numbered name is returned without looking
ProbeUnchecked(f, dest_dir, filename, counter) ==
    Join(dest_dir, WithCounter(filename, counter))

RECURSIVE Probe(_, _, _, _)
\* the while-loop of _unique_dest, from `counter` on
Probe(f, dest_dir, filename, counter) ==
    LET candidate == Join(dest_dir, WithCounter(filename, counter))
    IN  IF ~Exists(f, candidate) THEN candidate
        ELSE Probe(f, dest_dir, filename, counter + 1)

\* variant: the plain path is returned whether or not it is taken
UniqueDestUnchecked(f, dest_dir, filename) == Join(dest_dir, filename)

\* variant: a taken name gets the counter 1 without a further look
UniqueDestFirstCounter(f, dest_dir, filename) ==
    IF ~Exists(f, Join(dest_dir, filename)) THEN Join(dest_dir, filename)
    ELSE Join(dest_dir, WithCounter(filename, 1))

\* _unique_dest(dest_dir, filename)
UniqueDest(f, dest_dir, filename) ==
    LET dest_path == Join(dest_dir, filename)
    IN  IF ~Exists(f, dest_path) THEN dest_path
        ELSE Probe(f, dest_dir, filename, 1)

-----------------------------------------------------------------------------
(* shutil.move and Path.mkdir on the tree *)

\* where shutil.move(src, dst) puts src: inside dst when dst is a directory
RealDst(f, src, dst) == IF IsDir(f, dst) THEN Join(dst, NameOf(src)) ELSE dst

\* shutil.move(src, dst) raises: the source is gone, the operating system
\* refuses (fault), the target inside an existing directory is taken, a
\* directory would be moved into itself, or the target's parent is no directory
MoveRaises(f, src, dst, fault) ==
    \/ ~Exists(f, src)
    \/ fault
    \/ IsDir(f, dst) /\ Exists(f, RealDst(f, src, dst))
    \/ IsPrefix(src, RealDst(f, src, dst))
    \/ ~IsDir(f, Parent(RealDst(f, src, dst)))

\* variant: the file is copied and the source is left where it was
MoveTreeCopying(f, src, dst) ==
    LET real == RealDst(f, src, dst)
    IN  [q \in DOMAIN f \cup {real} |-> IF q = real THEN f[src] ELSE f[q]]

\* the tree after a successful shutil.move(src, dst): src and everything
\* below it now lives under the target; a regular file at the target is
\* replaced (os.rename)
MoveTree(f, src, dst) ==
    LET real == RealDst(f, src, dst)
        stay == {p \in DOMAIN f : ~IsPrefix(src, p) /\ ~IsPrefix(real, p)}
        gone == {p \in DOMAIN f : IsPrefix(src, p)}
        Rebase(p) == real \o SubSeq(p, Len(src) + 1, Len(p))
        new == {Rebase(p) : p \in gone}
        Origin(q) == CHOOSE p \in gone : Rebase(p) = q
    IN  [q \in stay \cup new |-> IF q \in new THEN f[Origin(q)] ELSE f[q]]

\* variant: a regular file in the way is not noticed
MkdirRaisesOnFaultOnly(f, dest_dir, fault) == ~Exists(f, dest_dir) /\ fault

\* dest_dir.mkdir(parents=True, exist_ok=True) raises when the path is a
\* regular file or the directory cannot be created (fault)
MkdirRaises(f, dest_dir, fault) ==
    \/ Exists(f, dest_dir) /\ ~IsDir(f, dest_dir)
    \/ ~Exists(f, dest_dir) /\ fault

Mkdir(f, dest_dir) ==
    IF Exists(f, dest_dir) THEN f
    ELSE [q \in DOMAIN f \cup {dest_dir} |-> IF q = dest_dir THEN Dir ELSE f[q]]

-----------------------------------------------------------------------------
(* One iteration of each loop *)

Outcome(source, dest, action) ==
    [source |-> source, dest |-> dest, action |-> action]

\* variant: a dry run moves the file and only labels it would_move
MoveOneDryRunMoves(f, src, dest_dir, dry_run, fault) ==
    LET dest_path == UniqueDest(f, dest_dir, NameOf(src))
    IN  IF MoveRaises(f, src, dest_path, fault)
        THEN [fs |-> f, out |-> Outcome(src, dest_dir, "error")]
        ELSE [fs |-> MoveTree(f, src, dest_path),
              out |-> Outcome(src, dest_path,
                              IF dry_run THEN "would_move" ELSE "moved")]

\* body of the try/except in move_files for one src: the tree afterwards
\* and the dict appended to results
MoveOne(f, src, dest_dir, dry_run, fault) ==
    LET dest_path == UniqueDest(f, dest_dir, NameOf(src))
    IN  IF dry_run
        THEN [fs |-> f, out |-> Outcome(src, dest_path, "would_move")]
        ELSE IF MoveRaises(f, src, dest_path, fault)
        THEN [fs |-> f, out |-> Outcome(src, dest_dir, "error")]
        ELSE [fs |-> MoveTree(f, src, dest_path),
              out |-> Outcome(src, dest_path, "moved")]

\* variant: the file is moved onto its original path, taken or not
UndoOneOntoSource(f, op, fault) ==
    LET src == op.dest
        dest == op.source
    IN  IF ~Exists(f, src)
        THEN [fs |-> f, out |-> Outcome(src, dest, "skipped_not_found")]
        ELSE IF MoveRaises(f, src, dest, fault)
        THEN [fs |-> f, out |-> Outcome(src, dest, "error")]
        ELSE [fs |-> MoveTree(f, src, dest),
              out |-> Outcome(src, dest, "restored")]

\* body of the try/except in undo_last for one op
UndoOne(f, op, fault) ==
    LET src == op.dest
        dest == op.source
        final_dest == UniqueDest(f, Parent(dest), NameOf(dest))
    IN  IF ~Exists(f, src)
        THEN [fs |-> f, out |-> Outcome(src, dest, "skipped_not_found")]
        ELSE IF MoveRaises(f, src, final_dest, fault)
        THEN [fs |-> f, out |-> Outcome(src, dest, "error")]
        ELSE [fs |-> MoveTree(f, src, final_dest),
              out |-> Outcome(src, final_dest, "restored")]

\* variant: the operations are taken first to last
InOrder(s) == s

\* reversed(ops)
Reversed(s) == [i \in 1..Len(s) |-> s[Len(s) + 1 - i]]

\* any(r.get("action") == "moved" for r in results)
AnyMoved(rs) == \E i \in 1..Len(rs) : rs[i].action = "moved"

\* variant: the record is saved after every real run
ShouldSaveEveryRealRun(dry_run, rs) == ~dry_run

\* variant: the record is saved whenever the run produced outcomes
ShouldSaveAnyOutcome(dry_run, rs) == rs # <<>>

\* the worker's condition for save_undo_record
ShouldSave(dry_run, rs) == ~dry_run /\ AnyMoved(rs)

\* the record the worker builds; the call number stands for the timestamp
Record(stamp, rs) == [timestamp |-> stamp, operations |-> rs]

\* save_undo_record / load_undo_record / unlink on the single slot
NoRecord == <<>>
SaveUndoRecord(record) == <<record>>
\* variant: a missing file loads as an empty batch
LoadUndoRecordDefaulting(slot) ==
    IF slot = NoRecord THEN <<[timestamp |-> 0, operations |-> <<>>]>> ELSE slot
LoadUndoRecord(slot) == slot
\* variant: the file is left in place
UnlinkUndoFileSkipped(slot) == slot
\* Path(UNDO_FILE).unlink(missing_ok=True)
UnlinkUndoFile(slot) == NoRecord

-----------------------------------------------------------------------------
(* Inputs *)

FileA == FileName("a")
FileB == FileName("b")

\* the files a matcher run over InDir can hand to move_files
SourceFiles == {Join(InDir, FileA), Join(InDir, FileB)}

\* lists without repetition, as one directory listing yields them
FileLists ==
    {s \in UNION {[1..n -> SourceFiles] : n \in 0..MaxFiles} :
        \A i, j \in 1..Len(s) : i # j => s[i] # s[j]}

Destinations == {InDir, OutDir}

\* the initial trees: InDir holds a.txt and b.txt; OutDir is absent, a
\* regular file, or a directory holding a.txt and perhaps a (1).txt
InitTree(inNames, outKind, outNames) ==
    LET inPaths == {Join(InDir, n) : n \in inNames}
        outPaths == IF outKind = "dir"
                    THEN {OutDir} \cup {Join(OutDir, n) : n \in outNames}
                    ELSE IF outKind = "file" THEN {OutDir} ELSE {}
        Ident(p) == CASE p = <<>> -> Dir
                      [] p = InDir -> Dir
                      [] p = OutDir -> IF outKind = "dir" THEN Dir ELSE 5
                      [] p = Join(InDir, FileA) -> 1
                      [] p = Join(InDir, FileB) -> 2
                      [] p = Join(OutDir, FileA) -> 3
                      [] p = Join(InDir, WithCounter(FileA, 1)) -> 6
                      [] OTHER -> 4
    IN  [p \in {<<>>, InDir} \cup inPaths \cup outPaths |-> Ident(p)]

InitTrees ==
    {InitTree(i, k, o) :
        i \in {{FileA, FileB}},
        k \in {"none", "file", "dir"},
        o \in {{FileA}, {FileA, WithCounter(FileA, 1)}}}

NoCall == [op |-> "none", files |-> <<>>, destination |-> <<>>,
           dry_run |-> FALSE]
NoRet == [kind |-> "none", ok |-> FALSE, error |-> "", results |-> <<>>]
NoPrev == [op |-> "none", dry_run |-> FALSE, ret |-> NoRet, fs0 |-> << >>]
NoNamed == [asked |-> FALSE, dir |-> <<>>, filename |-> FileA, path |-> <<>>]
NoRule == [keywords |-> <<>>, date_filter_enabled |-> FALSE,
           start_date |-> [kind |-> "absent", day |-> 0],
           end_date |-> [kind |-> "absent", day |-> 0]]
NoListing == [is_dir |-> FALSE, entries |-> <<>>]
\* the empty string, which is also how None is told apart (line 531)
NoName == <<>>
\* load_organizations() without a config file
NoRules == [n \in {} |-> NoRule]
\* the entries after show_creation_frame
ClearedForm == [name |-> <<>>, source |-> <<>>, keywords |-> <<>>,
                destination |-> <<>>, date_enabled |-> FALSE,
                start |-> [kind |-> "empty", day |-> 0],
                end |-> [kind |-> "empty", day |-> 0]]
NoSave == [called |-> FALSE, outcome |-> "none", original |-> NoName,
           name |-> NoName, fresh |-> FALSE]
NoScan == [called |-> FALSE, dir |-> NoListing, org |-> NoRule,
           result |-> [kind |-> "none", files |-> <<>>]]

Init ==
    /\ fs \in InitTrees
    /\ ledger = NoRecord
    /\ clock = 0
    /\ pc = "idle"
    /\ call = NoCall
    /\ results = <<>>
    /\ completed = 0
    /\ ops = <<>>
    /\ ret = NoRet
    /\ events = <<>>
    /\ fs0 = fs
    /\ ledger0 = NoRecord
    /\ prev = NoPrev
    /\ lastReal = [any |-> <<>>, moved |-> <<>>]
    /\ cbRaised = 0
    /\ named = NoNamed
    /\ workers = <<>>
    /\ queue = <<>>
    /\ windows = <<>>
    /\ taken = {}
    /\ scan = NoScan
    /\ sent = <<>>
    /\ organizations = NoRules
    /\ editing_org_original_name = NoName
    /\ form = ClearedForm
    /\ frame = "main"
    /\ saved = NoSave

-----------------------------------------------------------------------------
(* move_files, run by the worker of App._run_move_in_thread *)

\* what every call does to the bookkeeping when it starts
Enter(c) ==
    /\ clock' = clock + 1
    /\ call' = c
    /\ prev' = [op |-> call.op, dry_run |-> call.dry_run, ret |-> ret,
                fs0 |-> fs0]
    /\ fs0' = fs
    /\ ledger0' = ledger
    /\ events' = <<>>
    /\ results' = <<>>
    /\ completed' = 0

\* lines 113-122: the destination is created; a failure is re-raised and
\* reaches the worker's except clause.  The list comes from the matcher,
\* which skips directories (line 70)
ExecBegin(files, destination, dry_run, fault) ==
    /\ pc = "idle"
    /\ clock < MaxCalls
    /\ \A i \in 1..Len(files) : ~IsDir(fs, files[i])
    /\ Enter([op |-> "exec", files |-> files, destination |-> destination,
              dry_run |-> dry_run])
    /\ ops' = <<>>
    /\ IF MkdirRaises(fs, destination, fault)
       THEN /\ fs' = fs
            /\ pc' = "idle"
            /\ ret' = [kind |-> "raised", ok |-> FALSE, error |-> "mkdir",
                       results |-> <<>>]
       ELSE /\ fs' = Mkdir(fs, destination)
            /\ pc' = "exec_loop"
            /\ ret' = NoRet
    /\ UNCHANGED <<ledger, lastReal>>
    /\ UNCHANGED aside

\* variant: the first failing file ends the loop
ExecAttemptAborting(fault) ==
    /\ pc = "exec_loop"
    /\ completed < Len(call.files)
    /\ LET step == MoveOne(fs, call.files[completed + 1], call.destination,
                           call.dry_run, fault)
       IN  /\ fs' = step.fs
           /\ results' = Append(results, step.out)
           /\ completed' = IF step.out.action = "error"
                           THEN Len(call.files) ELSE completed + 1
    /\ events' = Append(events, <<"attempt", completed + 1, Len(call.files)>>)
    /\ pc' = "exec_cb"
    /\ UNCHANGED <<ledger, clock, call, ops, ret, fs0, ledger0, prev, lastReal>>
    /\ UNCHANGED aside

\* variant: a failing file leaves the loop hanging
ExecAttemptHangingOnError(fault) ==
    /\ pc = "exec_loop"
    /\ completed < Len(call.files)
    /\ LET step == MoveOne(fs, call.files[completed + 1], call.destination,
                           call.dry_run, fault)
       IN  /\ fs' = step.fs
           /\ results' = Append(results, step.out)
           /\ pc' = IF step.out.action = "error" THEN "hung" ELSE "exec_cb"
    /\ completed' = completed + 1
    /\ events' = Append(events, <<"attempt", completed + 1, Len(call.files)>>)
    /\ UNCHANGED <<ledger, clock, call, ops, ret, fs0, ledger0, prev, lastReal>>
    /\ UNCHANGED aside

\* variant: a failing file skips the callback
ExecAttemptSilentOnError(fault) ==
    /\ pc = "exec_loop"
    /\ completed < Len(call.files)
    /\ LET step == MoveOne(fs, call.files[completed + 1], call.destination,
                           call.dry_run, fault)
       IN  /\ fs' = step.fs
           /\ results' = Append(results, step.out)
           /\ pc' = IF step.out.action = "error" THEN "exec_loop"
                    ELSE "exec_cb"
    /\ completed' = completed + 1
    /\ events' = Append(events, <<"attempt", completed + 1, Len(call.files)>>)
    /\ UNCHANGED <<ledger, clock, call, ops, ret, fs0, ledger0, prev, lastReal>>
    /\ UNCHANGED aside

\* lines 124-138: one file is attempted
ExecAttempt(fault) ==
    /\ pc = "exec_loop"
    /\ completed < Len(call.files)
    /\ LET step == MoveOne(fs, call.files[completed + 1], call.destination,
                           call.dry_run, fault)
       IN  /\ fs' = step.fs
           /\ results' = Append(results, step.out)
    /\ completed' = completed + 1
    /\ events' = Append(events, <<"attempt", completed + 1, Len(call.files)>>)
    /\ pc' = "exec_cb"
    /\ UNCHANGED <<ledger, clock, call, ops, ret, fs0, ledger0, prev, lastReal>>
    /\ UNCHANGED aside

\* lines 139-143: progress_callback(completed, total); both callers in the
\* application pass a callback
ExecProgress ==
    /\ pc = "exec_cb"
    /\ events' = Append(events, <<"progress", completed, Len(call.files)>>)
    /\ pc' = "exec_loop"
    /\ UNCHANGED <<fs, ledger, clock, call, results, completed, ops, ret,
                   fs0, ledger0, prev, lastReal>>
    /\ UNCHANGED aside

\* line 144 and the worker's lines 737-745: the results come back, the
\* record is built and saved when the run was real and moved something
ExecReturn ==
    /\ pc = "exec_loop"
    /\ completed = Len(call.files)
    /\ ret' = [kind |-> "results", ok |-> TRUE, error |-> "",
               results |-> results]
    /\ ledger' = IF ShouldSave(call.dry_run, results)
                 THEN SaveUndoRecord(Record(clock, results))
                 ELSE ledger
    /\ lastReal' =
         IF call.dry_run THEN lastReal
         ELSE [any |-> <<Record(clock, results)>>,
               moved |-> IF AnyMoved(results) THEN <<Record(clock, results)>>
                         ELSE lastReal.moved]
    /\ pc' = "idle"
    /\ UNCHANGED <<fs, clock, call, results, completed, ops, events, fs0,
                   ledger0, prev>>
    /\ UNCHANGED aside

-----------------------------------------------------------------------------
(* undo_last *)

\* lines 170-177: the record is loaded; without one the call returns at once
UndoBegin ==
    /\ pc = "idle"
    /\ clock < MaxCalls
    /\ Enter([op |-> "undo", files |-> <<>>, destination |-> <<>>,
              dry_run |-> FALSE])
    /\ LET record == LoadUndoRecord(ledger)
       IN  IF record = NoRecord
           THEN /\ ops' = <<>>
                /\ pc' = "idle"
                /\ ret' = [kind |-> "undo", ok |-> FALSE,
                           error |-> "Nenhum registro de undo encontrado.",
                           results |-> <<>>]
           ELSE /\ ops' = record[1].operations
                /\ pc' = "undo_loop"
                /\ ret' = NoRet
    /\ lastReal' = [any |-> <<>>, moved |-> <<>>]
    /\ UNCHANGED <<fs, ledger>>
    /\ UNCHANGED aside

\* variant: the first operation that cannot be restored ends the loop
UndoAttemptAborting(fault) ==
    /\ pc = "undo_loop"
    /\ completed < Len(ops)
    /\ LET step == UndoOne(fs, Reversed(ops)[completed + 1], fault)
       IN  /\ fs' = step.fs
           /\ results' = Append(results, step.out)
           /\ completed' = IF step.out.action = "restored"
                           THEN completed + 1 ELSE Len(ops)
    /\ events' = Append(events, <<"attempt", completed + 1, Len(ops)>>)
    /\ pc' = "undo_cb"
    /\ UNCHANGED <<ledger, clock, call, ops, ret, fs0, ledger0, prev, lastReal>>
    /\ UNCHANGED aside

\* lines 178-191: one operation, taken from the end of the batch
UndoAttempt(fault) ==
    /\ pc = "undo_loop"
    /\ completed < Len(ops)
    /\ LET step == UndoOne(fs, Reversed(ops)[completed + 1], fault)
       IN  /\ fs' = step.fs
           /\ results' = Append(results, step.out)
    /\ completed' = completed + 1
    /\ events' = Append(events, <<"attempt", completed + 1, Len(ops)>>)
    /\ pc' = "undo_cb"
    /\ UNCHANGED <<ledger, clock, call, ops, ret, fs0, ledger0, prev, lastReal>>
    /\ UNCHANGED aside

\* lines 192-196: progress_callback(completed, total)
UndoProgress ==
    /\ pc = "undo_cb"
    /\ events' = Append(events, <<"progress", completed, Len(ops)>>)
    /\ pc' = "undo_loop"
    /\ UNCHANGED <<fs, ledger, clock, call, results, completed, ops, ret,
                   fs0, ledger0, prev, lastReal>>
    /\ UNCHANGED aside

\* lines 198-203: the ledger file is removed and the results returned
UndoReturn ==
    /\ pc = "undo_loop"
    /\ completed = Len(ops)
    /\ ledger' = UnlinkUndoFile(ledger)
    /\ ret' = [kind |-> "undo", ok |-> TRUE, error |-> "", results |-> results]
    /\ pc' = "idle"
    /\ UNCHANGED <<fs, clock, call, results, completed, ops, events, fs0,
                   ledger0, prev, lastReal>>
    /\ UNCHANGED aside

-----------------------------------------------------------------------------

Next ==
    \/ \E files \in FileLists, destination \in Destinations,
          dry_run \in BOOLEAN, fault \in BOOLEAN :
            ExecBegin(files, destination, dry_run, fault)
    \/ \E fault \in BOOLEAN : ExecAttempt(fault)
    \/ ExecProgress
    \/ ExecReturn
    \/ UndoBegin
    \/ \E fault \in BOOLEAN : UndoAttempt(fault)
    \/ UndoProgress
    \/ UndoReturn

Spec == Init /\ [][Next]_vars

-----------------------------------------------------------------------------
(* The engine under a progress callback that may raise *)

\* calls in one behaviour when the callback may raise
MaxCallsCb == 2

\* variant: an exception of the callback leaves move_files
ExecProgressMayRaiseUncaught(raises) ==
    /\ pc = "exec_cb"
    /\ events' = Append(events, <<"progress", completed, Len(call.files)>>)
    /\ IF raises
       THEN /\ pc' = "idle"
            /\ ret' = [kind |-> "raised", ok |-> FALSE, error |-> "callback",
                       results |-> <<>>]
            /\ cbRaised' = clock
       ELSE /\ pc' = "exec_loop"
            /\ UNCHANGED <<ret, cbRaised>>
    /\ UNCHANGED <<fs, ledger, clock, call, results, completed, ops,
                   fs0, ledger0, prev, lastReal>>
    /\ UNCHANGED apart

\* lines 139-143 with a callback that raises or not: the exception is
\* caught and logged inside the loop
ExecProgressMayRaise(raises) ==
    /\ pc = "exec_cb"
    /\ events' = Append(events, <<"progress", completed, Len(call.files)>>)
    /\ pc' = "exec_loop"
    /\ cbRaised' = IF raises THEN clock ELSE cbRaised
    /\ UNCHANGED <<fs, ledger, clock, call, results, completed, ops, ret,
                   fs0, ledger0, prev, lastReal>>
    /\ UNCHANGED apart

\* lines 192-196 with a callback that raises or not
UndoProgressMayRaise(raises) ==
    /\ pc = "undo_cb"
    /\ events' = Append(events, <<"progress", completed, Len(ops)>>)
    /\ pc' = "undo_loop"
    /\ cbRaised' = IF raises THEN clock ELSE cbRaised
    /\ UNCHANGED <<fs, ledger, clock, call, results, completed, ops, ret,
                   fs0, ledger0, prev, lastReal>>
    /\ UNCHANGED apart

NextCb ==
    \/ /\ clock < MaxCallsCb
       /\ \E files \in FileLists, destination \in Destinations,
             dry_run \in BOOLEAN, fault \in BOOLEAN :
               ExecBegin(files, destination, dry_run, fault)
    \/ \E fault \in BOOLEAN : ExecAttempt(fault)
    \/ \E raises \in BOOLEAN : ExecProgressMayRaise(raises)
    \/ ExecReturn
    \/ clock < MaxCallsCb /\ UndoBegin
    \/ \E fault \in BOOLEAN : UndoAttempt(fault)
    \/ \E raises \in BOOLEAN : UndoProgressMayRaise(raises)
    \/ UndoReturn

SpecCb == Init /\ [][NextCb]_vars

-----------------------------------------------------------------------------
(* Shorthands for the properties *)

Returned == pc = "idle" /\ ret.kind \in {"results", "undo"}
ExecReturned == pc = "idle" /\ call.op = "exec" /\ ret.kind = "results"
UndoReturned == pc = "idle" /\ call.op = "undo" /\ ret.kind = "undo"

HasAction(rs, a) == \E i \in 1..Len(rs) : rs[i].action = a

\* the call before this one was a real execution whose outcome list is
\* what this call found in the ledger
UndoFollowsSavedBatch ==
    /\ UndoReturned
    /\ prev.op = "exec" /\ ~prev.dry_run /\ prev.ret.kind = "results"
    /\ ledger0 # NoRecord
    /\ ledger0[1].operations = prev.ret.results

-----------------------------------------------------------------------------
(* C1 *)

\* C1 (as claimed): after a real execute whose outcome list was saved and an
\* undoLast right after it in which no move failed, every file whose outcome
\* was Moved is back at its original source path, also when the batch holds
\* Error outcomes.
C1_RoundTripClaimed ==
    (UndoFollowsSavedBatch /\ ~HasAction(ret.results, "error")) =>
        \A i \in 1..Len(prev.ret.results) :
            LET r == prev.ret.results[i]
            IN  r.action = "moved" =>
                    /\ Exists(fs, r.source)
                    /\ fs[r.source] = prev.fs0[r.source]

-----------------------------------------------------------------------------
(* C2 *)

\* C2 (as claimed): when undoLast reaches an operation recorded as an error,
\* it records skipped_not_found for it and leaves the filesystem as it is.
C2_ErrorEntrySkippedClaimed ==
    [][(/\ pc = "undo_loop"
        /\ completed < Len(ops)
        /\ completed' = completed + 1
        /\ Reversed(ops)[completed + 1].action = "error")
       => (/\ results'[completed'].action = "skipped_not_found"
           /\ fs' = fs)]_vars

-----------------------------------------------------------------------------
(* C3 *)

\* C3 (as claimed): during and after execute with dryRun=true the set of
\* existing files and directories is the one before the call.
C3_DryRunFrameClaimed ==
    (call.op = "exec" /\ call.dry_run) => fs = fs0

-----------------------------------------------------------------------------
(* C4 *)

-----------------------------------------------------------------------------
(* C5 *)

-----------------------------------------------------------------------------
(* C6 *)

\* C6: undoLast called with no persisted batch returns ok=false with an
\* error message, raises nothing, never invokes the progress callback and
\* leaves filesystem and ledger as they are.
C6_UndoWithoutBatch ==
    (call.op = "undo" /\ ledger0 = NoRecord) =>
        /\ pc = "idle"
        /\ ret.kind = "undo" /\ ~ret.ok /\ ret.error # ""
        /\ events = <<>>
        /\ fs = fs0
        /\ ledger = NoRecord

\* undoLast found no batch, although files that a
\* batch could name are in the destination
C6_Witness ==
    /\ call.op = "undo" /\ ledger0 = NoRecord
    /\ pc = "idle"
    /\ Exists(fs, Join(OutDir, FileA))

-----------------------------------------------------------------------------
(* C7 *)

InputFiles == {call.files[i] : i \in 1..Len(call.files)}

\* the entries directly inside the destination before the call
DestEntries0 == {p \in DOMAIN fs0 : p # <<>> /\ Parent(p) = call.destination}

\* C7 (as claimed): during and after a real execute every file that was in
\* the destination before the call is still at the same path.
C7_DestinationKeptClaimed ==
    (call.op = "exec" /\ ~call.dry_run) =>
        \A p \in DestEntries0 : Exists(fs, p) /\ fs[p] = fs0[p]

\* a real execute step that recorded Moved for the file it attempted
MovedStep ==
    /\ pc = "exec_loop" /\ ~call.dry_run
    /\ completed' = completed + 1
    /\ results'[completed'].action = "moved"

\* C7 (amended): during and after a real execute every file that was in the
\* destination before the call and is not itself one of the files to move is
\* still at the same path; every file recorded as Moved went to a path that
\* was free, the plain name when that was free and otherwise
\* "{stem} ({n}){ext}" with the smallest n >= 1 that was free.
C7_DestinationKept ==
    /\ []((call.op = "exec" /\ ~call.dry_run) =>
            \A p \in DestEntries0 \ InputFiles :
                Exists(fs, p) /\ fs[p] = fs0[p])
    /\ [][MovedStep =>
            LET src == call.files[completed']
                plain == Join(call.destination, NameOf(src))
                Numbered(n) ==
                    Join(call.destination, WithCounter(NameOf(src), n))
                got == results'[completed'].dest
            IN  /\ ~Exists(fs, got)
                /\ Exists(fs', got) /\ fs'[got] = fs[src]
                /\ IF ~Exists(fs, plain) THEN got = plain
                   ELSE \E n \in 1..Cardinality(DOMAIN fs) :
                            /\ got = Numbered(n)
                            /\ \A m \in 1..(n - 1) : Exists(fs, Numbered(m))
         ]_vars

\* a real execute into the other directory has returned; a.txt and
\* a (1).txt were there before, and the incoming a.txt went to a (2).txt
C7_Witness ==
    /\ ExecReturned /\ ~call.dry_run /\ call.destination = OutDir
    /\ Exists(fs0, Join(OutDir, WithCounter(FileA, 1)))
    /\ \E i \in 1..Len(ret.results) :
        /\ ret.results[i].action = "moved"
        /\ ret.results[i].dest = Join(OutDir, WithCounter(FileA, 2))

-----------------------------------------------------------------------------
(* C8 *)

NonError(rs) == SelectSeq(rs, LAMBDA r : r.action # "error")
SourcesOf(rs) == [i \in 1..Len(rs) |-> rs[i].source]

RECURSIVE Replay(_, _, _, _)
\* move_files' loop over `files` when no move is refused
Replay(f, files, dest_dir, dry_run) ==
    IF files = <<>> THEN [fs |-> f, outs |-> <<>>]
    ELSE LET step == MoveOne(f, Head(files), dest_dir, dry_run, FALSE)
             rest == Replay(step.fs, Tail(files), dest_dir, dry_run)
         IN  [fs |-> rest.fs, outs |-> <<step.out>> \o rest.outs]

\* C8: once the destination exists, execute yields one outcome per input
\* file, in input order, n of them when it returns; and the files that did
\* not fail are processed exactly as in a run over the list without the
\* failed files (same outcomes, same resulting filesystem).
C8_ErrorsDoNotAbort ==
    (call.op = "exec" /\ ret.kind # "raised") =>
        /\ Len(results) = completed
        /\ \A i \in 1..Len(results) : results[i].source = call.files[i]
        /\ ExecReturned => Len(ret.results) = Len(call.files)
        /\ LET ref == Replay(Mkdir(fs0, call.destination),
                             SourcesOf(NonError(results)),
                             call.destination, call.dry_run)
           IN  ref.outs = NonError(results) /\ ref.fs = fs

\* a real execute has returned whose first file failed and whose second
\* file was moved
C8_Witness ==
    /\ ExecReturned /\ ~call.dry_run
    /\ Len(ret.results) = 2
    /\ ret.results[1].action = "error"
    /\ ret.results[2].action = "moved"

-----------------------------------------------------------------------------
(* C9 *)

\* C9: when the destination cannot be created (a regular file is in the
\* way, or the creation is refused), execute raises: nothing is returned,
\* no file is attempted or moved, the callback is never invoked and the
\* ledger is not written.
C9_DestinationFailureIsFatal ==
    (/\ call.op = "exec"
     /\ \/ ret.kind = "raised"
        \/ Exists(fs0, call.destination) /\ ~IsDir(fs0, call.destination))
    => /\ pc = "idle"
       /\ ret.kind = "raised" /\ ret.results = <<>>
       /\ results = <<>> /\ events = <<>>
       /\ fs = fs0
       /\ ledger = ledger0

\* a real execute over two files raised because the destination is a file
C9_Witness ==
    /\ call.op = "exec" /\ ~call.dry_run /\ Len(call.files) = 2
    /\ ret.kind = "raised"
    /\ Exists(fs0, call.destination) /\ ~IsDir(fs0, call.destination)

-----------------------------------------------------------------------------
(* C10 *)

\* the number of items of the running call
Total == IF call.op = "exec" THEN Len(call.files) ELSE Len(ops)

\* C10: in one call over n items the callback invocations are exactly
\* (1,n), (2,n), ..., (n,n), the k-th one right after the attempt on item k
\* and before the attempt on item k+1, whether that attempt succeeded or not.
C10_ProgressAfterEachAttempt ==
    /\ \A j \in 1..Len(events) :
        events[j] = IF j % 2 = 1 THEN <<"attempt", (j + 1) \div 2, Total>>
                    ELSE <<"progress", j \div 2, Total>>
    /\ (Returned /\ ret.ok) => Len(events) = 2 * Total
    /\ pc \in {"exec_loop", "undo_loop"} => Len(events) = 2 * completed

\* an execute whose first file failed and an undo with a skipped entry have
\* both reported all their items
C10_Witness ==
    /\ UndoReturned /\ ret.ok /\ Len(events) = 4
    /\ HasAction(ret.results, "skipped_not_found")
    /\ prev.op = "exec" /\ Len(prev.ret.results) = 2
    /\ prev.ret.results[1].action = "error"

-----------------------------------------------------------------------------
(* C11 *)

\* C11: an invocation of the callback, raising or not, changes nothing but
\* the position in the loop (same filesystem, results, ledger, nothing
\* returned early); a call in which the callback raised still returns
\* normally with one result per item, and an undo still removes the ledger.
C11_CallbackErrorsSwallowed ==
    /\ [][(pc \in {"exec_cb", "undo_cb"}) =>
            (/\ pc' = IF pc = "exec_cb" THEN "exec_loop" ELSE "undo_loop"
             /\ UNCHANGED <<fs, ledger, results, completed, ops, ret, call>>)
         ]_vars
    /\ []((clock > 0 /\ cbRaised = clock /\ pc = "idle") =>
            (/\ ret.kind \in {"results", "undo"} /\ ret.ok
             /\ Len(ret.results) = Total
             /\ call.op = "undo" => ledger = NoRecord))

\* an undo over two operations has returned after its callback raised, with
\* one entry restored
C11_Witness ==
    /\ cbRaised = clock
    /\ UndoReturned /\ ret.ok /\ Len(ret.results) = 2
    /\ HasAction(ret.results, "restored")

-----------------------------------------------------------------------------
(* C12 *)

\* the call before this one was a dry run that returned its list, and this
\* call is a dry run over the same files and destination (a dry run reports
\* every source it was given, each with a path inside the destination)
SameDryRunTwice ==
    /\ ExecReturned /\ call.dry_run
    /\ prev.op = "exec" /\ prev.dry_run /\ prev.ret.kind = "results"
    /\ SourcesOf(prev.ret.results) = call.files
    /\ \A i \in 1..Len(prev.ret.results) :
           Parent(prev.ret.results[i].dest) = call.destination

\* C12: the second of two consecutive dry runs over the same file list and
\* destination returns the same outcome list as the first, and every entry
\* of it is would_move.
C12_DryRunRepeatable ==
    SameDryRunTwice =>
        /\ ret.results = prev.ret.results
        /\ \A i \in 1..Len(ret.results) : ret.results[i].action = "would_move"

\* two dry runs over both files have returned, one file being announced under
\* a numbered name because its plain name is taken in the destination
C12_Witness ==
    /\ SameDryRunTwice
    /\ Len(call.files) = 2
    /\ \E i \in 1..2 : NameOf(ret.results[i].dest).nums # <<>>

-----------------------------------------------------------------------------
(* _unique_dest on its own: any directory content, any file name *)

\* highest counter among the numbered names the directory starts with
MaxCounter == 3
\* most entries the tree grows to by files stored at returned paths
MaxEntries == 9

\* the names asked for, and the names the directory may hold at first
AskedNames == {FileA, WithCounter(FileA, 1), FileB}
HeldNames ==
    AskedNames \cup {WithCounter(FileA, n) : n \in 1..MaxCounter}
               \cup {WithCounter(WithCounter(FileA, 1), 1)}

\* OutDir absent, or a directory holding any of the names
NamerTrees ==
    {InitTree({}, "none", {})}
        \cup {InitTree({}, "dir", held) : held \in SUBSET HeldNames}

\* the state after construction, over the given trees and, for the
\* matcher, the given listings of the source directory
Fresh(trees, listings) ==
    /\ fs \in trees
    /\ ledger = NoRecord
    /\ clock = 0
    /\ pc = "idle"
    /\ call = NoCall
    /\ results = <<>>
    /\ completed = 0
    /\ ops = <<>>
    /\ ret = NoRet
    /\ events = <<>>
    /\ fs0 = fs
    /\ ledger0 = NoRecord
    /\ prev = NoPrev
    /\ lastReal = [any |-> <<>>, moved |-> <<>>]
    /\ cbRaised = 0
    /\ named = NoNamed
    /\ workers = <<>>
    /\ queue = <<>>
    /\ windows = <<>>
    /\ taken = {}
    /\ scan \in {[NoScan EXCEPT !.dir = d] : d \in listings}
    /\ sent = <<>>
    /\ organizations = NoRules
    /\ editing_org_original_name = NoName
    /\ form = ClearedForm
    /\ frame = "main"
    /\ saved = NoSave

engine == <<clock, pc, call, results, completed, ops, ret, events,
            fs0, ledger0, prev, lastReal, cbRaised>>

\* _unique_dest(dest_dir, filename): only exists() is called
NamerCall(dest_dir, filename) ==
    /\ named' = [asked |-> TRUE, dir |-> dest_dir, filename |-> filename,
                 path |-> UniqueDest(fs, dest_dir, filename)]
    /\ UNCHANGED <<fs, ledger, engine, workers, queue, windows, taken, scan, sent, rules>>

\* line 131: a file is stored at the path just returned
NamerStore ==
    /\ named.asked
    /\ IsDir(fs, named.dir)
    /\ Cardinality(DOMAIN fs) < MaxEntries
    /\ fs' = [q \in DOMAIN fs \cup {named.path} |->
                 IF q = named.path THEN 1 ELSE fs[q]]
    /\ named' = NoNamed
    /\ UNCHANGED <<ledger, engine, workers, queue, windows, taken, scan, sent, rules>>

NextNamer ==
    \/ \E filename \in AskedNames : NamerCall(OutDir, filename)
    \/ NamerStore

SpecNamer == Fresh(NamerTrees, {NoListing}) /\ [][NextNamer]_vars

(* C13 *)

Numbered(n) == Join(named.dir, WithCounter(named.filename, n))

\* C13: _unique_dest returns dir/filename when that path does not exist,
\* otherwise dir/"{stem} ({n}){ext}" for the smallest n >= 1 whose path does
\* not exist; the returned path does not exist, and the call leaves the
\* filesystem as it was.
C13_UniqueDestination ==
    /\ [](named.asked =>
            LET plain == Join(named.dir, named.filename)
            IN  /\ ~Exists(fs, named.path)
                /\ ~Exists(fs, plain) => named.path = plain
                /\ Exists(fs, plain) =>
                       \E n \in 1..Cardinality(DOMAIN fs) :
                           /\ named.path = Numbered(n)
                           /\ \A k \in 1..(n - 1) : Exists(fs, Numbered(k)))
    /\ [][(named'.asked /\ named' # named) => fs' = fs]_vars

\* "a (1).txt" was asked for while it and "a (1) (1).txt" exist: the answer
\* is "a (1) (2).txt"
C13_Witness ==
    /\ named.asked
    /\ named.filename = WithCounter(FileA, 1)
    /\ named.path = Numbered(2)

-----------------------------------------------------------------------------
(* The engine next to a user who puts new things where moved files were *)

\* number of execute / undo calls in one behaviour with such a user
MaxCallsEnv == 2

\* between two calls, with a batch recorded, a new file or directory
\* appears at a path a listed file was moved away from
EnvCreate(p, content) ==
    /\ pc = "idle"
    /\ ledger # NoRecord
    /\ ~Exists(fs, p)
    /\ IsDir(fs, Parent(p))
    /\ fs' = [q \in DOMAIN fs \cup {p} |-> IF q = p THEN content ELSE fs[q]]
    /\ UNCHANGED <<ledger, engine, apart>>

NextEnv ==
    \/ /\ clock < MaxCallsEnv
       /\ \E files \in FileLists, destination \in Destinations,
             dry_run \in BOOLEAN, fault \in BOOLEAN :
               ExecBegin(files, destination, dry_run, fault)
    \/ \E fault \in BOOLEAN : ExecAttempt(fault)
    \/ ExecProgress
    \/ ExecReturn
    \/ clock < MaxCallsEnv /\ UndoBegin
    \/ \E fault \in BOOLEAN : UndoAttempt(fault)
    \/ UndoProgress
    \/ UndoReturn
    \/ \E p \in SourceFiles, content \in {Dir, 6} : EnvCreate(p, content)

SpecEnv == Init /\ [][NextEnv]_vars

(* C14 *)

UndoStep == pc = "undo_loop" /\ completed' = completed + 1

\* the n-th numbered sibling of a path
Sibling(p, n) == Join(Parent(p), WithCounter(NameOf(p), n))

\* C14: one step of undo_last changes nothing outside the thing it moves
\* back; when the original source path of its ledger entry is occupied, the
\* occupant stays as it is, the entry is not reported as skipped if its dest
\* exists, and a restored file is put, with its content, under the first
\* free "{stem} ({n}){ext}" name next to the occupant.
C14_UndoNeverClobbers ==
    [][UndoStep =>
        LET op == ops[Len(ops) + 1 - completed']
            r == results'[completed']
        IN  /\ \A p \in DOMAIN fs :
                   ~IsPrefix(op.dest, p) => Exists(fs', p) /\ fs'[p] = fs[p]
            /\ Exists(fs, op.source) =>
                   /\ Exists(fs', op.source)
                   /\ fs'[op.source] = fs[op.source]
                   /\ Exists(fs, op.dest) => r.action # "skipped_not_found"
                   /\ r.action = "restored" =>
                          \E n \in 1..Cardinality(DOMAIN fs) :
                              /\ r.dest = Sibling(op.source, n)
                              /\ ~Exists(fs, r.dest)
                              /\ \A k \in 1..(n - 1) :
                                     Exists(fs, Sibling(op.source, k))
                              /\ fs'[r.dest] = fs[op.dest]
     ]_vars

\* an undo has restored a file under a numbered name next to a file that
\* appeared at its original path after the execution
C14_Witness ==
    /\ UndoReturned
    /\ \E i \in 1..Len(ret.results) :
           LET op == ops[Len(ops) + 1 - i]
           IN  /\ ret.results[i].action = "restored"
               /\ ret.results[i].dest = Sibling(op.source, 1)
               /\ Exists(fs, op.source) /\ fs[op.source] = 6
               /\ op.action = "moved"

-----------------------------------------------------------------------------
(* C15 *)

\* the operation the i-th step of an undo over `ops` is claimed to take
OpOfStep(i) == ops[Len(ops) + 1 - i]

\* the original path, or one of its numbered siblings
AtOrNextTo(q, p) ==
    \/ q = p
    \/ \E n \in 1..Cardinality(DOMAIN fs) : q = Sibling(p, n)

\* C15: undo_last works through the persisted batch op_1..op_n backwards:
\* the i-th result has the dest of op_(n+1-i) as its source and the source
\* of op_(n+1-i) (or its numbered sibling) as its target, and the i-th step
\* moves nothing but what lies at the dest of op_(n+1-i).
C15_UndoInReverseOrder ==
    /\ []((call.op = "undo" /\ ledger0 # NoRecord) =>
            /\ ops = ledger0[1].operations
            /\ \A i \in 1..Len(results) :
                   /\ results[i].source = OpOfStep(i).dest
                   /\ AtOrNextTo(results[i].dest, OpOfStep(i).source))
    /\ [][UndoStep =>
            /\ \A p \in DOMAIN fs :
                   ~IsPrefix(OpOfStep(completed').dest, p) =>
                       Exists(fs', p) /\ fs'[p] = fs[p]
            /\ results'[completed'].action = "restored" =>
                   /\ ~Exists(fs', OpOfStep(completed').dest)
                   /\ fs'[results'[completed'].dest]
                          = fs[OpOfStep(completed').dest]
         ]_vars

\* an undo over a batch of two has returned: the second operation's file
\* was restored first, the first operation's file second
C15_Witness ==
    /\ UndoReturned /\ Len(ops) = 2
    /\ ops[1].dest # ops[2].dest
    /\ ret.results[1].action = "restored" /\ ret.results[2].action = "restored"
    /\ ret.results[1].source = ops[2].dest
    /\ ret.results[2].dest = ops[1].source

-----------------------------------------------------------------------------
(* C16 *)

UndoActions == {"restored", "skipped_not_found", "error"}

C16_WitnessSkipped ==
    /\ UndoReturned /\ Len(ops) = 2
    /\ HasAction(ret.results, "skipped_not_found")
    /\ HasAction(ret.results, "restored")

-----------------------------------------------------------------------------
(* The App: worker threads, the shared queue and the polling handlers *)

\* number of workers started in one behaviour
MaxWorkers == 2

Msg(tag, done, total, from) ==
    [tag |-> tag, completed |-> done, total |-> total, from |-> from]

\* self._thread_queue.put(msg) by worker w
Put(w, tag, done, total) ==
    /\ queue' = Append(queue, Msg(tag, done, total, w))
    /\ sent' = [sent EXCEPT ![w] = Append(@, Msg(tag, done, total, w))]

\* w takes a step that brings it to `pc` with the given locals
Step(w, pc1, completed1, results1, ops1) ==
    workers' = [workers EXCEPT ![w] =
                   [@ EXCEPT !.pc = pc1, !.completed = completed1,
                             !.results = results1, !.ops = ops1]]

Running(w) == workers[w].pc # "done"

\* _confirm_and_execute_preview and _run_move_in_thread up to t.start():
\* the list was matched when the preview was opened, is not empty, and the
\* run is a real one
StartExecute(files, destination) ==
    /\ Len(workers) < MaxWorkers
    /\ files # <<>>
    /\ \A i \in 1..Len(files) : ~IsDir(fs, files[i])
    /\ workers' = Append(workers,
                       [kind |-> "exec", pc |-> "mkdir", files |-> files,
                        destination |-> destination, dry_run |-> FALSE,
                        completed |-> 0, results |-> <<>>, ops |-> <<>>])
    /\ windows' = Append(windows, TRUE)
    /\ sent' = Append(sent, <<>>)
    /\ UNCHANGED <<fs, ledger, queue, taken, engine, named, scan, rules>>

\* undo_last_execution up to t.start(): a record with operations exists
StartUndo ==
    /\ Len(workers) < MaxWorkers
    /\ LoadUndoRecord(ledger) # NoRecord
    /\ LoadUndoRecord(ledger)[1].operations # <<>>
    /\ workers' = Append(workers,
                       [kind |-> "undo", pc |-> "load", files |-> <<>>,
                        destination |-> <<>>, dry_run |-> FALSE,
                        completed |-> 0, results |-> <<>>, ops |-> <<>>])
    /\ windows' = Append(windows, TRUE)
    /\ sent' = Append(sent, <<>>)
    /\ UNCHANGED <<fs, ledger, queue, taken, engine, named, scan, rules>>

\* variant: after enqueueing "error" the worker goes on with the loop
WorkerMkdirGoingOn(w, fault) ==
    /\ w \in 1..Len(workers) /\ workers[w].pc = "mkdir"
    /\ Step(w, "loop", 0, <<>>, <<>>)
    /\ IF MkdirRaises(fs, workers[w].destination, fault)
       THEN /\ Put(w, "error", 0, 0)
            /\ fs' = fs
       ELSE /\ fs' = Mkdir(fs, workers[w].destination)
            /\ UNCHANGED <<queue, sent>>
    /\ UNCHANGED <<ledger, windows, taken, engine, named, scan, rules>>

\* worker(): lines 113-118 of move_files; the exception reaches the
\* worker's except clause, which enqueues "error"
WorkerMkdir(w, fault) ==
    /\ w \in 1..Len(workers) /\ workers[w].pc = "mkdir"
    /\ IF MkdirRaises(fs, workers[w].destination, fault)
       THEN /\ Step(w, "done", 0, <<>>, <<>>)
            /\ Put(w, "error", 0, 0)
            /\ fs' = fs
       ELSE /\ Step(w, "loop", 0, <<>>, <<>>)
            /\ fs' = Mkdir(fs, workers[w].destination)
            /\ UNCHANGED <<queue, sent>>
    /\ UNCHANGED <<ledger, windows, taken, engine, named, scan, rules>>

\* worker(): one iteration of the loop of move_files
WorkerMove(w, fault) ==
    /\ w \in 1..Len(workers)
    /\ workers[w].kind = "exec" /\ workers[w].pc = "loop"
    /\ workers[w].completed < Len(workers[w].files)
    /\ LET me == workers[w]
           step == MoveOne(fs, me.files[me.completed + 1], me.destination,
                           me.dry_run, fault)
       IN  /\ fs' = step.fs
           /\ Step(w, "cb", me.completed + 1, Append(me.results, step.out),
                   <<>>)
    /\ UNCHANGED <<ledger, queue, sent, windows, taken, engine, named, scan, rules>>

\* progress_cb of the execute worker
WorkerProgress(w) ==
    /\ w \in 1..Len(workers)
    /\ workers[w].kind = "exec" /\ workers[w].pc = "cb"
    /\ Put(w, "progress", workers[w].completed, Len(workers[w].files))
    /\ Step(w, "loop", workers[w].completed, workers[w].results, <<>>)
    /\ UNCHANGED <<fs, ledger, windows, taken, engine, named, scan, rules>>

\* worker(), lines 737-743: the record is built and, for a real run with a
\* moved file, saved; the worker's number stands for the timestamp
WorkerSave(w) ==
    /\ w \in 1..Len(workers)
    /\ workers[w].kind = "exec" /\ workers[w].pc = "loop"
    /\ workers[w].completed = Len(workers[w].files)
    /\ ledger' = IF ShouldSave(workers[w].dry_run, workers[w].results)
                 THEN SaveUndoRecord(Record(w, workers[w].results))
                 ELSE ledger
    /\ Step(w, "put", workers[w].completed, workers[w].results, <<>>)
    /\ UNCHANGED <<fs, queue, sent, windows, taken, engine, named, scan, rules>>

\* worker(), line 745: ("done", results)
WorkerDone(w) ==
    /\ w \in 1..Len(workers)
    /\ workers[w].kind = "exec" /\ workers[w].pc = "put"
    /\ Put(w, "done", 0, 0)
    /\ Step(w, "done", workers[w].completed, workers[w].results, <<>>)
    /\ UNCHANGED <<fs, ledger, windows, taken, engine, named, scan, rules>>

\* worker_undo(): lines 170-177 of undo_last; without a record the dict
\* with ok=False is what "undo_done" carries
WorkerLoad(w) ==
    /\ w \in 1..Len(workers) /\ workers[w].pc = "load"
    /\ LET record == LoadUndoRecord(ledger)
       IN  IF record = NoRecord
           THEN /\ Step(w, "done", 0, <<>>, <<>>)
                /\ Put(w, "undo_done", 0, 0)
           ELSE /\ Step(w, "loop", 0, <<>>, record[1].operations)
                /\ UNCHANGED <<queue, sent>>
    /\ UNCHANGED <<fs, ledger, windows, taken, engine, named, scan, rules>>

\* worker_undo(): one iteration of the loop of undo_last
WorkerRestore(w, fault) ==
    /\ w \in 1..Len(workers)
    /\ workers[w].kind = "undo" /\ workers[w].pc = "loop"
    /\ workers[w].completed < Len(workers[w].ops)
    /\ LET me == workers[w]
           step == UndoOne(fs, Reversed(me.ops)[me.completed + 1], fault)
       IN  /\ fs' = step.fs
           /\ Step(w, "cb", me.completed + 1, Append(me.results, step.out),
                   me.ops)
    /\ UNCHANGED <<ledger, queue, sent, windows, taken, engine, named, scan, rules>>

\* progress_cb of the undo worker
WorkerUndoProgress(w) ==
    /\ w \in 1..Len(workers)
    /\ workers[w].kind = "undo" /\ workers[w].pc = "cb"
    /\ Put(w, "undo_progress", workers[w].completed, Len(workers[w].ops))
    /\ Step(w, "loop", workers[w].completed, workers[w].results,
            workers[w].ops)
    /\ UNCHANGED <<fs, ledger, windows, taken, engine, named, scan, rules>>

\* worker_undo(): lines 198-201 of undo_last
WorkerUnlink(w) ==
    /\ w \in 1..Len(workers)
    /\ workers[w].kind = "undo" /\ workers[w].pc = "loop"
    /\ workers[w].completed = Len(workers[w].ops)
    /\ ledger' = UnlinkUndoFile(ledger)
    /\ Step(w, "put", workers[w].completed, workers[w].results,
            workers[w].ops)
    /\ UNCHANGED <<fs, queue, sent, windows, taken, engine, named, scan, rules>>

\* worker_undo(), line 812: ("undo_done", result)
WorkerUndoDone(w) ==
    /\ w \in 1..Len(workers)
    /\ workers[w].kind = "undo" /\ workers[w].pc = "put"
    /\ Put(w, "undo_done", 0, 0)
    /\ Step(w, "done", workers[w].completed, workers[w].results,
            workers[w].ops)
    /\ UNCHANGED <<fs, ledger, windows, taken, engine, named, scan, rules>>

\* the tags a handler acts on
ProgressTag(kind) == IF kind = "exec" THEN "progress" ELSE "undo_progress"
TerminalTags(kind) ==
    IF kind = "exec" THEN {"done", "error"} ELSE {"undo_done", "undo_error"}

RECURSIVE Drain(_, _, _, _, _)
\* the while-loop of handle_queue / handle_q for the handler of worker h:
\* every item is taken off the queue; a terminal item destroys the window,
\* a progress item updates its widgets, which raises once the window is
\* destroyed and so ends the loop, any other item is dropped
Drain(q, open, kind, h, log) ==
    IF q = <<>> THEN [queue |-> q, open |-> open, log |-> log]
    ELSE LET item == Head(q)
             seen == item.tag = ProgressTag(kind)
                        \/ item.tag \in TerminalTags(kind)
             shown == item.tag = ProgressTag(kind) /\ open
             log1 == IF shown THEN log
                     ELSE log \cup {[msg |-> item, by |-> h,
                                     seen |-> seen /\ open]}
         IN  IF item.tag = ProgressTag(kind) /\ ~open
             THEN [queue |-> Tail(q), open |-> open, log |-> log1]
             ELSE Drain(Tail(q),
                        open /\ item.tag \notin TerminalTags(kind),
                        kind, h, log1)

\* one run of handle_queue / handle_q, scheduled by self.after(200, ...)
\* as long as the window exists
Poll(h) ==
    /\ h \in 1..Len(windows) /\ windows[h]
    /\ LET after == Drain(queue, TRUE, workers[h].kind, h, taken)
       IN  /\ queue' = after.queue
           /\ windows' = [windows EXCEPT ![h] = after.open]
           /\ taken' = after.log
    /\ UNCHANGED <<fs, ledger, workers, sent, engine, named, scan, rules>>

\* the lists a preview can hold
MatchedLists == FileLists \ {<<>>}

NextApp ==
    \/ \E files \in MatchedLists, destination \in Destinations :
          StartExecute(files, destination)
    \/ StartUndo
    \/ \E w \in 1..MaxWorkers, fault \in BOOLEAN : WorkerMkdir(w, fault)
    \/ \E w \in 1..MaxWorkers, fault \in BOOLEAN : WorkerMove(w, fault)
    \/ \E w \in 1..MaxWorkers : WorkerProgress(w)
    \/ \E w \in 1..MaxWorkers : WorkerSave(w)
    \/ \E w \in 1..MaxWorkers : WorkerDone(w)
    \/ \E w \in 1..MaxWorkers : WorkerLoad(w)
    \/ \E w \in 1..MaxWorkers, fault \in BOOLEAN : WorkerRestore(w, fault)
    \/ \E w \in 1..MaxWorkers : WorkerUndoProgress(w)
    \/ \E w \in 1..MaxWorkers : WorkerUnlink(w)
    \/ \E w \in 1..MaxWorkers : WorkerUndoDone(w)
    \/ \E h \in 1..MaxWorkers : Poll(h)

SpecApp == Init /\ [][NextApp]_vars

(* C17 *)

RunningWorkers == {w \in 1..Len(workers) : Running(w)}

\* C17 (as claimed): at most one worker, execute or undo, is running at any
\* time.
C17_SingleFlightClaimed == Cardinality(RunningWorkers) <= 1

-----------------------------------------------------------------------------
(* get_matched_files on its own: any rule, any listing of the source *)

\* calendar days 1..MaxDay
MaxDay == 2
\* longest keyword list of a rule
MaxKeywords == 2
\* most entries in the source directory
MaxListed == 2

\* a datetime: calendar day and time of day down to the microsecond
At(day, hour, minute, second, microsecond) ==
    [day |-> day, hour |-> hour, minute |-> minute, second |-> second,
     microsecond |-> microsecond]

Fields(t) == <<t.day, t.hour, t.minute, t.second, t.microsecond>>

\* a < b on datetimes
Earlier(a, b) ==
    \E i \in 1..5 :
        /\ Fields(a)[i] < Fields(b)[i]
        /\ \A j \in 1..(i - 1) : Fields(a)[j] = Fields(b)[j]

\* the modification times a file may have: the first instant of a day, its
\* last whole second, and half a second later
Instants ==
    UNION {{At(d, 0, 0, 0, 0), At(d, 23, 59, 59, 0), At(d, 23, 59, 59, 500000)}
               : d \in 1..MaxDay}

\* the values of start_date / end_date: None, "", a "YYYY-MM-DD" string,
\* a string strptime rejects
Absent == [kind |-> "absent", day |-> 0]
DateStrings ==
    {Absent, [kind |-> "empty", day |-> 0], [kind |-> "malformed", day |-> 0]}
        \cup {[kind |-> "iso", day |-> d] : d \in 1..MaxDay}

NoDate == [kind |-> "none", t |-> At(0, 0, 0, 0, 0)]

\* _parse_date(date_str)
ParseDate(date_str) ==
    IF date_str.kind \in {"absent", "empty"} THEN NoDate
    ELSE IF date_str.kind = "iso"
    THEN [kind |-> "at", t |-> At(date_str.day, 0, 0, 0, 0)]
    ELSE [kind |-> "raise", t |-> At(0, 0, 0, 0, 0)]

\* variant: the dates are parsed whether or not the filter is enabled
DateAlways(org, date_str) == ParseDate(date_str)

\* _parse_date(...) if org.get("date_filter_enabled") else None
DateIfEnabled(org, date_str) ==
    IF org.date_filter_enabled THEN ParseDate(date_str) ELSE NoDate

\* str.lower() on the letters used here
LowerChar(c) == CASE c = "A" -> "a" [] c = "B" -> "b" [] OTHER -> c
Lower(str) == [i \in 1..Len(str) |-> LowerChar(str[i])]

\* kw in name
Contains(kw, name) ==
    \E i \in 0..(Len(name) - Len(kw)) : SubSeq(name, i + 1, i + Len(kw)) = kw

\* variant: the empty keyword is not set aside
KeywordHitsAlsoEmpty(kw, name) == Contains(kw, name)

\* kw and kw in name
KeywordHits(kw, name) == kw # <<>> /\ Contains(kw, name)

\* names of directory entries and keywords of rules, as typed
ListedNames == {<<"a">>, <<"A", "b">>}
KeywordChoices == {<<>>, <<"A">>, <<"a", "B">>}

\* a directory entry: a subdirectory, a file whose stat() fails, or a file
\* with a modification time
EntryChoices ==
    {[name |-> n, is_dir |-> TRUE, readable |-> TRUE, mtime |-> At(1, 0, 0, 0, 0)]
        : n \in ListedNames}
    \cup {[name |-> n, is_dir |-> FALSE, readable |-> FALSE,
           mtime |-> At(1, 0, 0, 0, 0)] : n \in ListedNames}
    \cup {[name |-> n, is_dir |-> FALSE, readable |-> TRUE, mtime |-> t]
        : n \in ListedNames, t \in Instants}

\* the source: not a directory, or a directory with entries of distinct
\* names in the order iterdir() yields them
Listings ==
    {NoListing} \cup
    {[is_dir |-> TRUE, entries |-> es] :
        es \in {s \in UNION {[1..n -> EntryChoices] : n \in 0..MaxListed} :
                  \A i, j \in 1..Len(s) : i # j => s[i].name # s[j].name}}

\* the keyword lists of a rule: a set of substrings, in some order
KeywordLists ==
    {s \in UNION {[1..n -> KeywordChoices] : n \in 0..MaxKeywords} :
        \A i, j \in 1..Len(s) : i # j => s[i] # s[j]}

Rules ==
    [keywords : KeywordLists,
     date_filter_enabled : BOOLEAN,
     start_date : DateStrings,
     end_date : DateStrings]

\* get_matched_files(org) over the listing `dir` of org["source"]
GetMatchedFiles(org, dir) ==
    LET keywords == [i \in 1..Len(org.keywords) |-> Lower(org.keywords[i])]
        start == DateIfEnabled(org, org.start_date)
        end0 == DateIfEnabled(org, org.end_date)
        end == IF end0.kind = "at"
               THEN [end0 EXCEPT !.t.hour = 23, !.t.minute = 59,
                                 !.t.second = 59]
               ELSE end0
        Keeps(p) ==
            /\ ~p.is_dir
            /\ p.readable
            /\ ~(start.kind = "at" /\ Earlier(p.mtime, start.t))
            /\ ~(end.kind = "at" /\ Earlier(end.t, p.mtime))
            /\ \E i \in 1..Len(keywords) :
                   KeywordHits(keywords[i], Lower(p.name))
        kept == SelectSeq(dir.entries, Keeps)
    IN  IF ~dir.is_dir THEN [kind |-> "returned", files |-> <<>>]
        ELSE IF start.kind = "raise" \/ end0.kind = "raise"
        THEN [kind |-> "raised", files |-> <<>>]
        ELSE [kind |-> "returned",
              files |-> [i \in 1..Len(kept) |-> kept[i].name]]

\* one call of get_matched_files, the only one of the behaviour
MatchCall(org) ==
    /\ ~scan.called
    /\ scan' = [called |-> TRUE, dir |-> scan.dir, org |-> org,
                result |-> GetMatchedFiles(org, scan.dir)]
    /\ UNCHANGED <<fs, ledger, engine, named, workers, queue, windows, taken,
                   sent, rules>>

NextMatch == \E org \in Rules : MatchCall(org)

SpecMatch ==
    Fresh({InitTree({}, "none", {})}, Listings) /\ [][NextMatch]_vars

\* shorthands about the call recorded in `scan`
ScanReturned == scan.called /\ scan.result.kind = "returned"
Listed == {scan.dir.entries[i] : i \in 1..Len(scan.dir.entries)}
ResultNames == {scan.result.files[i] : i \in 1..Len(scan.result.files)}

\* the lower-cased name contains a non-empty lower-cased keyword
HasKeyword(p) ==
    \E i \in 1..Len(scan.org.keywords) :
        /\ scan.org.keywords[i] # <<>>
        /\ Contains(Lower(scan.org.keywords[i]), Lower(p.name))

\* the date window of section 4.1: nothing to pass when the filter is off
\* or a bound is not set; otherwise not before 00:00:00 of the start date
\* and not after 23:59:59 of the end date
PassesWindow(p) ==
    \/ ~scan.org.date_filter_enabled
    \/ /\ scan.org.start_date.kind = "iso" =>
              p.readable /\
              ~Earlier(p.mtime, At(scan.org.start_date.day, 0, 0, 0, 0))
       /\ scan.org.end_date.kind = "iso" =>
              p.readable /\
              ~Earlier(At(scan.org.end_date.day, 23, 59, 59, 0), p.mtime)

NoRepeats(seq) == \A i, j \in 1..Len(seq) : i # j => seq[i] # seq[j]

\* the same rule with its keywords in the opposite order
KeywordsReversed(org) ==
    [org EXCEPT !.keywords =
        [i \in 1..Len(org.keywords) |->
            org.keywords[Len(org.keywords) + 1 - i]]]

(* C18 *)

\* C18 (as claimed): the result holds exactly the non-directory entries whose
\* lower-cased name contains a non-empty keyword and that pass the date
\* window, each once, and is the same for any order of the keywords.
C18_MatchExactClaimed ==
    ScanReturned =>
        /\ ResultNames =
             {p.name : p \in {q \in Listed :
                                ~q.is_dir /\ HasKeyword(q) /\ PassesWindow(q)}}
        /\ NoRepeats(scan.result.files)
        /\ GetMatchedFiles(KeywordsReversed(scan.org), scan.dir) = scan.result

\* C18 (amended): the result holds exactly the non-directory entries whose
\* modification time can be read, whose lower-cased name contains a
\* non-empty keyword and that pass the date window, each once, and is the
\* same for any order of the keywords.
C18_MatchExact ==
    ScanReturned =>
        /\ ResultNames =
             {p.name : p \in {q \in Listed :
                                /\ ~q.is_dir /\ q.readable
                                /\ HasKeyword(q) /\ PassesWindow(q)}}
        /\ NoRepeats(scan.result.files)
        /\ GetMatchedFiles(KeywordsReversed(scan.org), scan.dir) = scan.result

\* a rule with an empty keyword and an upper-case one was run over a
\* directory of two files that both contain the keyword: the one whose
\* modification time cannot be read was left out
C18_Witness ==
    /\ ScanReturned
    /\ scan.org.keywords = <<<<>>, <<"A">>>>
    /\ Len(scan.dir.entries) = 2
    /\ \A p \in Listed : ~p.is_dir /\ HasKeyword(p)
    /\ \E p \in Listed : ~p.readable
    /\ Len(scan.result.files) = 1

(* C19 *)

\* C19: with the date filter disabled the result is the same whatever
\* start_date and end_date are: absent, empty, a date or not even a date.
C19_DatesIgnoredWhenDisabled ==
    (scan.called /\ ~scan.org.date_filter_enabled) =>
        \A s, e \in DateStrings :
            GetMatchedFiles([scan.org EXCEPT !.start_date = s,
                                             !.end_date = e], scan.dir)
                = scan.result

\* with the filter disabled, a rule whose end date lies before the file's
\* modification day and whose start date is no date at all returned the file
C19_Witness ==
    /\ ScanReturned /\ ~scan.org.date_filter_enabled
    /\ scan.org.start_date.kind = "malformed"
    /\ scan.org.end_date = [kind |-> "iso", day |-> 1]
    /\ \E p \in Listed :
           /\ ~p.is_dir /\ p.readable /\ p.mtime.day = 2
           /\ p.name \in ResultNames

(* C20 *)

\* C20 (as claimed): with the date filter enabled, a file whose name has a
\* keyword (and whose modification time can be read) is returned exactly
\* when it was modified not before 00:00:00 of the start date, if set, and
\* on or before the calendar day of the end date, if set.
C20_EndOfDayInclusiveClaimed ==
    (ScanReturned /\ scan.org.date_filter_enabled) =>
        \A p \in Listed :
            (~p.is_dir /\ p.readable /\ HasKeyword(p)) =>
                (p.name \in ResultNames <=>
                    /\ scan.org.start_date.kind = "iso" =>
                           ~Earlier(p.mtime,
                                    At(scan.org.start_date.day, 0, 0, 0, 0))
                    /\ scan.org.end_date.kind = "iso" =>
                           p.mtime.day <= scan.org.end_date.day)

-----------------------------------------------------------------------------
(* C21 *)

\* C21: from the start of a dry-run execution to its end, and until the next
\* call, the ledger is what it was when the run started: not created, not
\* overwritten, not deleted.
C21_DryRunKeepsLedger ==
    (call.op = "exec" /\ call.dry_run) => ledger = ledger0

\* a dry run over two files has finished while a batch was recorded
C21_Witness ==
    /\ ExecReturned /\ call.dry_run
    /\ Len(ret.results) = 2
    /\ ledger0 # NoRecord

-----------------------------------------------------------------------------
(* The engine under a scheduler that lets a started call run *)

\* number of execute / undo calls in one behaviour when progress is checked
MaxCallsLive == 2

\* the steps of a call that has started
CallSteps ==
    \/ \E fault \in BOOLEAN : ExecAttempt(fault)
    \/ ExecProgress
    \/ ExecReturn
    \/ \E fault \in BOOLEAN : UndoAttempt(fault)
    \/ UndoProgress
    \/ UndoReturn

NextLive ==
    \/ /\ clock < MaxCallsLive
       /\ \E files \in FileLists, destination \in Destinations,
             dry_run \in BOOLEAN, fault \in BOOLEAN :
               ExecBegin(files, destination, dry_run, fault)
    \/ clock < MaxCallsLive /\ UndoBegin
    \/ CallSteps

\* move_files and undo_last are plain loops in a thread that keeps running
SpecLive == Init /\ [][NextLive]_vars /\ WF_vars(CallSteps)

(* C22 *)

Attempts == SelectSeq(events, LAMBDA e : e[1] = "attempt")

\* C22: a call that has started returns; when it returns its list, every
\* item was attempted exactly once, in order, and no numbered name in the
\* list has a counter beyond the number of entries the tree holds.
C22_CallsRunToCompletion ==
    /\ (pc # "idle") ~> (pc = "idle")
    /\ []((pc = "idle" /\ ret.kind \in {"results", "undo"} /\ ret.ok) =>
            /\ Len(ret.results) = Total
            /\ Attempts = [k \in 1..Total |-> <<"attempt", k, Total>>]
            /\ \A i \in 1..Len(ret.results) :
                   LET nums == NameOf(ret.results[i].dest).nums
                   IN  \A j \in 1..Len(nums) :
                           nums[j] <= Cardinality(DOMAIN fs))

\* an undo over a batch of two has returned after an execution over two
\* files, one result carrying a numbered name
C22_Witness ==
    /\ UndoReturned /\ ret.ok /\ Len(ret.results) = 2
    /\ \E i \in 1..2 : NameOf(ret.results[i].dest).nums # <<>>

-----------------------------------------------------------------------------
(* C23 *)

\* the number of items worker w goes through
Items(w) ==
    IF workers[w].kind = "exec" THEN Len(workers[w].files)
    ELSE Len(workers[w].ops)

IsTerminal(w, m) == m.tag \in TerminalTags(workers[w].kind)

\* the messages of w so far: progress (1,n), (2,n), ... in order, then at
\* most one terminal message, which is there exactly when w has ended; the
\* k-th progress message directly follows the k-th attempt; a done /
\* undo_done of a worker that went through its items follows all n
\* progress messages
Protocol(w) ==
    LET s == sent[w]
        n == Items(w)
        ended == s # <<>> /\ IsTerminal(w, s[Len(s)])
        k == IF ended THEN Len(s) - 1 ELSE Len(s)
    IN  /\ k <= n
        /\ \A i \in 1..k : s[i] = Msg(ProgressTag(workers[w].kind), i, n, w)
        /\ ended <=> ~Running(w)
        /\ k = IF workers[w].pc = "cb" THEN workers[w].completed - 1
               ELSE workers[w].completed
        /\ (ended /\ s[Len(s)].tag = "done") => k = n
        /\ (ended /\ s[Len(s)].tag = "undo_done" /\ n > 0) => k = n

-----------------------------------------------------------------------------
(* C24 *)

\* C24 (as claimed, its safety part): every message taken off the queue was
\* acted on by the handler that took it, and a terminal message was taken by
\* the handler of the worker that sent it.
C24_EveryMessageAcknowledgedClaimed ==
    \A t \in taken :
        /\ t.seen
        /\ IsTerminal(t.msg.from, t.msg) => t.by = t.msg.from

-----------------------------------------------------------------------------
(* C25 *)

\* the regular files of a tree, by content: how many paths hold content c
Contents(f) == {f[p] : p \in DOMAIN f} \ {Dir}
Copies(f, c) == Cardinality({p \in DOMAIN f : f[p] = c})

\* C25: no step of an execute (real or dry run) or of an undoLast deletes or
\* overwrites a regular file: the files that exist, identified by content,
\* are the same after each step as before it; only their paths change.
C25_FilesConserved ==
    [][/\ Contents(fs') = Contents(fs)
       /\ \A c \in Contents(fs) : Copies(fs', c) = Copies(fs, c)]_vars

\* the third call of a sequence has returned, an undoLast that restored a
\* file to another path than the one it held before the call
C25_Witness ==
    /\ UndoReturned
    /\ clock = MaxCalls
    /\ HasAction(ret.results, "restored")
    /\ \E p \in DOMAIN fs0 : fs0[p] # Dir /\ (~Exists(fs, p) \/ fs[p] # fs0[p])
    /\ \E p \in DOMAIN fs : p # <<>> /\ NameOf(p).nums # <<>> /\ fs[p] \in {1, 2}

-----------------------------------------------------------------------------
(* One execute over a folder that holds numbered names already *)

MaxCallsIso == 1

\* a folder left behind by an earlier run: a.txt next to a (1).txt
NumberedNames == {FileA, WithCounter(FileA, 1)}

BatchTrees ==
    {InitTree(NumberedNames, k, o) :
        k \in {"none", "file", "dir"},
        o \in {{FileA}, {FileA, WithCounter(FileA, 1)}}}

\* the lists a matcher run over that folder can return
BatchLists ==
    {s \in UNION {[1..n -> {Join(InDir, x) : x \in NumberedNames}] :
                    n \in 0..MaxFiles} :
        \A i, j \in 1..Len(s) : i # j => s[i] # s[j]}

NextBatch ==
    \/ /\ clock < MaxCallsIso
       /\ \E files \in BatchLists, destination \in Destinations,
             dry_run \in BOOLEAN, fault \in BOOLEAN :
            ExecBegin(files, destination, dry_run, fault)
    \/ \E fault \in BOOLEAN : ExecAttempt(fault)
    \/ ExecProgress
    \/ ExecReturn

SpecBatch == Fresh(BatchTrees, {NoListing}) /\ [][NextBatch]_vars

(* C26 *)

MovedOf(rs) == SelectSeq(rs, LAMBDA r : r.action = "moved")

\* what the claim says of the list a real execute returned
PostCondition(rs) ==
    /\ \A i \in 1..Len(rs) :
        /\ ~Exists(fs, rs[i].source)
        /\ Exists(fs, rs[i].dest)
        /\ Parent(rs[i].dest) = call.destination
        /\ ~Exists(fs0, rs[i].dest)
    /\ \A i, j \in 1..Len(rs) : i # j => rs[i].dest # rs[j].dest

-----------------------------------------------------------------------------
(* C27 *)

\* the items a run of handle_queue takes off the queue in this step
TakenNow == taken' \ taken

\* C27 (as claimed): when the UI handles the done message of a real run with
\* a moved file, the ledger holds the batch of that run, so an undoLast
\* finds it.
C27_LedgerHoldsHandledBatchClaimed ==
    [][\A t \in TakenNow :
         (/\ t.msg.tag = "done" /\ t.seen
          /\ AnyMoved(workers[t.msg.from].results))
         => ledger' = SaveUndoRecord(Record(t.msg.from,
                                            workers[t.msg.from].results))]_vars

-----------------------------------------------------------------------------
(* The rule editor of the App: creation frame, save, edit, delete *)

\* number of rules the mapping holds in one behaviour
MaxRules == 2

\* str.strip() on the texts typed here
RECURSIVE StripLeft(_)
StripLeft(s) == IF s # <<>> /\ s[1] = " " THEN StripLeft(Tail(s)) ELSE s

RECURSIVE StripRight(_)
StripRight(s) ==
    IF s # <<>> /\ s[Len(s)] = " "
    THEN StripRight(SubSeq(s, 1, Len(s) - 1)) ELSE s

Strip(s) == StripRight(StripLeft(s))

\* .get().strip() on a date entry: only blanks leave nothing
StripDate(d) == IF d.kind = "blank" THEN [kind |-> "empty", day |-> 0] ELSE d

\* datetime.strptime(d, "%Y-%m-%d") raises ValueError
StrptimeRaises(d) == d.kind # "iso"

\* keywords.split(",")
RECURSIVE SplitComma(_)
SplitComma(s) ==
    IF \A i \in 1..Len(s) : s[i] # "," THEN <<s>>
    ELSE LET i == CHOOSE k \in 1..Len(s) :
                    s[k] = "," /\ \A j \in 1..(k - 1) : s[j] # ","
         IN  <<SubSeq(s, 1, i - 1)>> \o SplitComma(SubSeq(s, i + 1, Len(s)))

\* line 547: [k.strip().lower() for k in keywords.split(",") if k.strip()]
ParseKeywords(text) ==
    LET kept == SelectSeq(SplitComma(text), LAMBDA k : Strip(k) # <<>>)
    IN  [i \in 1..Len(kept) |-> Lower(Strip(kept[i]))]

\* ", ".join(keywords)
RECURSIVE JoinComma(_)
JoinComma(list) ==
    IF list = <<>> THEN <<>>
    ELSE IF Len(list) = 1 THEN list[1]
    ELSE list[1] \o <<",", " ">> \o JoinComma(Tail(list))

\* variant: the entry under the original name is left in place
PopKeeping(orgs, name) == orgs

\* organizations.pop(name, None)
Pop(orgs, name) == [n \in DOMAIN orgs \ {name} |-> orgs[n]]

\* organizations[name] = rule
Store(orgs, name, rule) ==
    [n \in DOMAIN orgs \cup {name} |-> IF n = name THEN rule ELSE orgs[n]]

\* what the user can type into the creation frame
NameTexts == {<<>>, <<"x">>, <<" ", "x">>, <<"y">>, <<"z">>}
KeywordTexts == {<<>>, <<"a", ",", " ", "B", ",">>}
DateTexts == {[kind |-> "malformed", day |-> 0], [kind |-> "iso", day |-> 1]}
FormChoices ==
    [name : NameTexts, source : {<<"s">>}, keywords : KeywordTexts,
     destination : {<<"d">>}, date_enabled : BOOLEAN,
     start : DateTexts, end : {[kind |-> "empty", day |-> 0]}]

\* what the rule editor never touches
outside == <<fs, ledger, engine, named, workers, queue, windows, taken,
             scan, sent>>

\* show_creation_frame, lines 475-486
ShowCreationFrame ==
    /\ frame = "main"
    /\ editing_org_original_name' = NoName
    /\ form' = ClearedForm
    /\ frame' = "creation"
    /\ saved' = NoSave
    /\ UNCHANGED organizations
    /\ UNCHANGED outside

\* show_main_frame, lines 488-492, from the cancel button
ShowMainFrame ==
    /\ frame = "creation"
    /\ editing_org_original_name' = NoName
    /\ frame' = "main"
    /\ saved' = NoSave
    /\ UNCHANGED <<organizations, form>>
    /\ UNCHANGED outside

\* the user fills in the entries of the creation frame
TypeForm(f) ==
    /\ frame = "creation"
    /\ form' = f
    /\ saved' = NoSave
    /\ UNCHANGED <<organizations, editing_org_original_name, frame>>
    /\ UNCHANGED outside

\* edit_organization, lines 571-603, for the rule the combobox shows
EditOrganization(org_name) ==
    /\ frame = "main"
    /\ org_name # <<>> /\ org_name \in DOMAIN organizations
    /\ LET org == organizations[org_name]
       IN  form' = [name |-> org_name,
                    source |-> org.source,
                    keywords |-> JoinComma(org.keywords),
                    destination |-> org.destination,
                    date_enabled |-> org.date_filter_enabled,
                    start |-> IF org.date_filter_enabled THEN org.start_date
                              ELSE [kind |-> "empty", day |-> 0],
                    end |-> IF org.date_filter_enabled THEN org.end_date
                            ELSE [kind |-> "empty", day |-> 0]]
    /\ editing_org_original_name' = org_name
    /\ frame' = "creation"
    /\ saved' = NoSave
    /\ UNCHANGED organizations
    /\ UNCHANGED outside

\* delete_organization, lines 556-569; confirm is the answer to askyesno
DeleteOrganization(org_name, confirm) ==
    /\ frame = "main"
    /\ org_name # <<>> /\ org_name \in DOMAIN organizations
    /\ organizations' = IF confirm THEN Pop(organizations, org_name)
                        ELSE organizations
    /\ saved' = NoSave
    /\ UNCHANGED <<editing_org_original_name, form, frame>>
    /\ UNCHANGED outside

\* save_organization, lines 507-554; confirm is the answer to askyesno
\* when it is asked
SaveOrganization(confirm) ==
    /\ frame = "creation"
    /\ LET name == Strip(form.name)
           source == Strip(form.source)
           keywords == Strip(form.keywords)
           dest == Strip(form.destination)
           start == StripDate(form.start)
           end == StripDate(form.end)
           original == editing_org_original_name
           missing == name = <<>> \/ source = <<>> \/ keywords = <<>>
                        \/ dest = <<>>
           badDate == /\ form.date_enabled
                      /\ \E d \in {start, end} :
                            d.kind # "empty" /\ StrptimeRaises(d)
           asks == IF original # NoName
                   THEN name # original /\ name \in DOMAIN organizations
                   ELSE name \in DOMAIN organizations
           kept == IF original # NoName /\ name # original
                   THEN Pop(organizations, original) ELSE organizations
           rule == [source |-> source,
                    keywords |-> ParseKeywords(keywords),
                    destination |-> dest,
                    date_filter_enabled |-> form.date_enabled,
                    start_date |-> start,
                    end_date |-> end]
           Told(outcome) == [called |-> TRUE, outcome |-> outcome,
                             original |-> original, name |-> name,
                             fresh |-> name \notin DOMAIN organizations]
       IN  IF missing \/ badDate
           THEN /\ saved' = Told("invalid")
                /\ UNCHANGED <<organizations, editing_org_original_name, frame>>
           ELSE IF asks /\ ~confirm
           THEN /\ saved' = Told("declined")
                /\ UNCHANGED <<organizations, editing_org_original_name, frame>>
           ELSE /\ Cardinality(DOMAIN Store(kept, name, rule)) <= MaxRules
                /\ organizations' = Store(kept, name, rule)
                /\ editing_org_original_name' = NoName
                /\ frame' = "main"
                /\ saved' = Told("saved")
    /\ UNCHANGED form
    /\ UNCHANGED outside

NextOrg ==
    \/ ShowCreationFrame
    \/ ShowMainFrame
    \/ \E f \in FormChoices : TypeForm(f)
    \/ \E org_name \in DOMAIN organizations : EditOrganization(org_name)
    \/ \E org_name \in DOMAIN organizations, confirm \in BOOLEAN :
            DeleteOrganization(org_name, confirm)
    \/ \E confirm \in BOOLEAN : SaveOrganization(confirm)

SpecOrg == Init /\ [][NextOrg]_vars

(* C28 *)

\* C28: a save_organization call in edit mode that succeeds with a new name
\* not used before leaves no entry under the original name, an entry under
\* the new name that holds the fields of the form, and every other rule as
\* it was; a call whose validation fails or whose overwrite question is
\* declined leaves the mapping as it was.
C28_RenameKeepsOtherRules ==
    [][saved'.called =>
        LET name == Strip(form.name)
            original == editing_org_original_name
            others == DOMAIN organizations \ {original}
        IN  /\ (/\ saved'.outcome = "saved"
                /\ original # NoName /\ name # original
                /\ name \notin DOMAIN organizations)
               => /\ DOMAIN organizations' = others \cup {name}
                  /\ original \notin DOMAIN organizations'
                  /\ organizations'[name].source = Strip(form.source)
                  /\ organizations'[name].destination = Strip(form.destination)
                  /\ organizations'[name].keywords = ParseKeywords(form.keywords)
                  /\ organizations'[name].date_filter_enabled = form.date_enabled
                  /\ organizations'[name].start_date = StripDate(form.start)
                  /\ organizations'[name].end_date = StripDate(form.end)
                  /\ \A n \in others : organizations'[n] = organizations[n]
            /\ (\/ Strip(form.name) = <<>>
                \/ Strip(form.keywords) = <<>>
                \/ form.date_enabled /\ form.start.kind = "malformed"
                \/ saved'.outcome \in {"invalid", "declined"})
               => organizations' = organizations
    ]_vars

\* a rule was renamed to a name not used before while another rule existed
C28_Witness ==
    /\ saved.called /\ saved.outcome = "saved"
    /\ saved.original # NoName /\ saved.name # saved.original /\ saved.fresh
    /\ Cardinality(DOMAIN organizations) = 2
    /\ saved.name \in DOMAIN organizations

====
